---- MODULE Spec2Model ----
(***************************************************************************)
(* A model of the movie intelligence engine (intelligence.py) and of the   *)
(* report keys its dashboard (dashboard.py) consumes.                      *)
(*                                                                         *)
(* Python strings that the code inspects (titles, comment texts, model     *)
(* labels) are sequences of one-character strings, so that lower() and the *)
(* substring test `k in t` are computed, not assumed.  Python dicts,       *)
(* defaultdicts and Counters are sequences of [k, v] pairs in insertion    *)
(* order, which is the order Python iterates them in.                      *)
(***************************************************************************)
EXTENDS Integers, Sequences, FiniteSets, TLC

VARIABLES
    all_comments,   \* the list run_intelligence iterates (line 156..158)
    pos,            \* how many entries of all_comments the loop has consumed
    pc,             \* "loop" | "done" | "error"; "call" | "return" for a helper call
    results,        \* line 160
    video_map,      \* line 161
    user_map,       \* line 162
    language_map,   \* line 163
    stage_map,      \* line 164
    category_map,   \* line 165
    spikes,         \* line 166
    engagement,     \* line 167
    output,         \* the report run_intelligence returns and saves, or None
    fn,             \* the helper under call, for the helper specifications
    arg,            \* its argument
    ret             \* its return value

vars == << all_comments, pos, pc, results, video_map, user_map, language_map,
           stage_map, category_map, spikes, engagement, output, fn, arg, ret >>

None == "None"

\* ------------------------------------------------------------------ bounds

MaxComments == 4
MaxDeepComments == 7
MaxPermComments == 4
MaxTitleWords == 2
MaxBuckets == 4
MaxCount == 3

\* --------------------------------------------------------------- constants

NEGATIVE_VIDEO_THRESHOLD == 60
REPEAT_USER_THRESHOLD == 3
MIN_BUCKETS_FOR_SPIKE == 3
SPIKE_MULTIPLIER == 2
MIN_ATTACK_STAGES == 2

\* ------------------------------------------------------------ Python strings

UpperCase == <<"A","B","C","D","E","F","G","H","I","J","K","L","M",
               "N","O","P","Q","R","S","T","U","V","W","X","Y","Z">>
LowerCase == <<"a","b","c","d","e","f","g","h","i","j","k","l","m",
               "n","o","p","q","r","s","t","u","v","w","x","y","z">>

\* str.lower() on one character
LowerChar(ch) ==
    IF \E n \in 1..26 : UpperCase[n] = ch
    THEN LowerCase[CHOOSE n \in 1..26 : UpperCase[n] = ch]
    ELSE ch

\* str.lower()
lower(s) == [n \in 1..Len(s) |-> LowerChar(s[n])]

\* `k in t` for two strings
Contains(t, k) ==
    \E n \in 0..(Len(t) - Len(k)) : SubSeq(t, n + 1, n + Len(k)) = k

\* ------------------------------------------------------------- the rulesets

VIDEO_CLASSIFIERS ==
    << [label |-> "Title Glimpse", keys |-> <<
            <<"t","i","t","l","e">>,
            <<"g","l","i","m","p","s","e">>,
            <<"a","n","n","o","u","n","c","e","m","e","n","t">>,
            <<"f","i","r","s","t"," ","l","o","o","k">>>>],
       [label |-> "Song", keys |-> <<
            <<"s","o","n","g">>,
            <<"l","y","r","i","c","a","l">>,
            <<"a","u","d","i","o">>,
            <<"m","u","s","i","c">>>>],
       [label |-> "Teaser", keys |-> <<
            <<"t","e","a","s","e","r">>>>],
       [label |-> "Trailer", keys |-> <<
            <<"t","r","a","i","l","e","r">>>>],
       [label |-> "Interview", keys |-> <<
            <<"i","n","t","e","r","v","i","e","w">>,
            <<"p","r","e","s","s"," ","m","e","e","t">>,
            <<"i","n","t","e","r","a","c","t","i","o","n">>>>],
       [label |-> "Review / Public Talk", keys |-> <<
            <<"r","e","v","i","e","w">>,
            <<"p","u","b","l","i","c"," ","t","a","l","k">>,
            <<"r","e","s","p","o","n","s","e">>>>] >>

NEGATIVE_CATEGORIES ==
    << [label |-> "Routine Content", keys |-> <<
            <<"r","o","u","t","i","n","e">>,
            <<"b","o","r","i","n","g">>,
            <<"s","a","m","e">>>>],
       [label |-> "Age / Relevance", keys |-> <<
            <<"o","l","d">>,
            <<"a","g","e">>,
            <<"o","u","t","d","a","t","e","d">>>>],
       [label |-> "Director Criticism", keys |-> <<
            <<"r","a","v","i","p","u","d","i">>,
            <<"d","i","r","e","c","t","o","r">>>>],
       [label |-> "Story Doubt", keys |-> <<
            <<"s","t","o","r","y">>,
            <<"s","c","r","i","p","t">>,
            <<"c","o","n","t","e","n","t">>>>],
       [label |-> "PR Attack", keys |-> <<
            <<"p","r">>,
            <<"p","a","i","d">>,
            <<"f","a","k","e"," ","h","y","p","e">>>>],
       [label |-> "Personal Attack", keys |-> <<
            <<"a","c","t","i","n","g">>,
            <<"v","o","i","c","e">>,
            <<"l","o","o","k","s">>>>] >>

\* ------------------------------------------------------------------ helpers

\* any(k in t for k in keys)
AnyKeyIn(keys, t) == \E j \in 1..Len(keys) : Contains(t, keys[j])

\* The loop `for label, keys in RULES.items(): if any(...): return label`,
\* entered at rule n, falling through to `return default`.
RECURSIVE RuleLoop(_, _, _, _)
RuleLoop(rules, t, n, default) ==
    IF n > Len(rules) THEN default
    ELSE IF AnyKeyIn(rules[n].keys, t) THEN rules[n].label
    ELSE RuleLoop(rules, t, n + 1, default)

normalize_sentiment(label) ==
    IF Contains(lower(label), <<"p","o","s">>) THEN "Positive" ELSE "Negative"

\* classify_video without title.lower()
classify_video_cased(title) == RuleLoop(VIDEO_CLASSIFIERS, title, 1, "Other")

classify_video(title) == RuleLoop(VIDEO_CLASSIFIERS, lower(title), 1, "Other")

categorize_negative(text) ==
    RuleLoop(NEGATIVE_CATEGORIES, lower(text), 1, "General Negativity")

\* ------------------------------------------------------------ Python dicts

DictHas(d, k) == \E n \in 1..Len(d) : d[n].k = k

\* d.get(k, default); for a defaultdict or Counter, d[k]
DictGet(d, k, default) ==
    IF DictHas(d, k) THEN d[CHOOSE n \in 1..Len(d) : d[n].k = k].v ELSE default

\* d[k] = v: in place for a known key, at the end for a new one
DictSet(d, k, v) ==
    IF DictHas(d, k)
    THEN [n \in 1..Len(d) |-> IF d[n].k = k THEN [k |-> k, v |-> v] ELSE d[n]]
    ELSE Append(d, [k |-> k, v |-> v])

RECURSIVE SumOver(_, _, _)
\* sum(f(x) for x in seq[n:]) with f given as a sequence of the same length
SumOver(seq, n, acc) ==
    IF n > Len(seq) THEN acc ELSE SumOver(seq, n + 1, acc + seq[n])

\* NegativeCount with rows[0] tested in place of the row at hand
NegativeCountFirstRow(rows) ==
    IF rows # <<>> /\ rows[1].sentiment = "Negative" THEN Len(rows) ELSE 0

\* sum(1 for x in rows if x["sentiment"] == "Negative")
NegativeCount(rows) ==
    SumOver([n \in 1..Len(rows) |->
                IF rows[n].sentiment = "Negative" THEN 1 ELSE 0], 1, 0)

\* ------------------------------------------------- the external collaborators

MAX_TEXT == 512

\* c["comment"][:512]
Slice(text) == SubSeq(text, 1, IF Len(text) < MAX_TEXT THEN Len(text) ELSE MAX_TEXT)

\* The sentiment pipeline's first result for a text: the label and the score
\* (in percent) that the pretrained model answers with.  It is a function of
\* the text alone.
sentiment_model(text) ==
    CASE text = <<"B","o","r","i","n","g">> ->
            [label |-> <<"N","e","g","a","t","i","v","e">>, score |-> 91]
      [] text = <<"w","o","r","s","t">> ->
            [label |-> <<"V","e","r","y"," ","N","e","g","a","t","i","v","e">>, score |-> 97]
      [] text = <<"s","u","p","e","r">> ->
            [label |-> <<"V","e","r","y"," ","P","o","s","i","t","i","v","e">>, score |-> 88]
      [] text = <<"o","k">> ->
            [label |-> <<"N","e","u","t","r","a","l">>, score |-> 55]
      [] OTHER ->
            [label |-> <<"P","o","s","i","t","i","v","e">>, score |-> 60]

\* langdetect.detect: a language tag, or "RAISE" for a text with no features
\* (LangDetectException).
detect(text) ==
    CASE text = <<"B","o","r","i","n","g">> -> "en"
      [] text = <<"w","o","r","s","t">> -> "en"
      [] text = <<"s","u","p","e","r">> -> "te"
      [] text = <<"o","k">> -> "te"
      [] OTHER -> "RAISE"

\* datetime.fromisoformat(published_at.replace("Z", "+00:00")) succeeds
Parses(published_at) == published_at.kind = "iso"

\* ts.strftime("%Y-%m-%d %H:00"): the date and the hour, the minutes dropped
HourBucket(published_at) == << published_at.day, published_at.hh >>

\* ---------------------------------------------------------- the ingest loop

EmptyAgg ==
    [results |-> <<>>, video_map |-> <<>>, user_map |-> <<>>,
     language_map |-> <<>>, stage_map |-> <<>>, category_map |-> <<>>,
     spikes |-> <<>>, engagement |-> <<>>]

\* An exception is raised inside the try body.  Every statement that can raise
\* (the model call, detect, fromisoformat: lines 171-176) comes before the
\* first statement that touches an aggregate (line 189).
Raises(c) ==
    \/ detect(c.comment) = "RAISE"
    \/ ~Parses(c.published_at)

\* NegCat without the test of the sentiment
NegCatAlways(c, sentiment) == categorize_negative(c.comment)

\* neg_cat, line 178
NegCat(c, sentiment) ==
    IF sentiment = "Negative" THEN categorize_negative(c.comment) ELSE None

\* row, lines 171-187
MakeRow(c) ==
    LET out == sentiment_model(Slice(c.comment))
        sentiment == normalize_sentiment(out.label)
    IN  [author |-> c.author, comment |-> c.comment,
         published_at |-> c.published_at, video_title |-> c.video_title,
         video_type |-> c.video_type, video_url |-> c.video_url,
         sentiment |-> sentiment,
         language |-> detect(c.comment),
         negative_category |-> NegCat(c, sentiment),
         confidence |-> out.score,
         hour_bucket |-> HourBucket(c.published_at)]

\* user_map[c["author"]].append(row), line 191
UserMapAdd(um, row) ==
    DictSet(um, row.author, Append(DictGet(um, row.author, <<>>), row))

\* video_map[c["video_title"]].append(row), line 190
VideoMapAdd(vm, row) ==
    DictSet(vm, row.video_title, Append(DictGet(vm, row.video_title, <<>>), row))

\* stage_map updates, lines 194 and 197
StageMapAdd(sm, row) ==
    LET old == DictGet(sm, row.video_type, [total |-> 0, negative |-> 0])
    IN  DictSet(sm, row.video_type,
                [total |-> old.total + 1,
                 negative |-> IF row.sentiment = "Negative"
                              THEN old.negative + 1 ELSE old.negative])

\* language_map[language][sentiment] += 1, line 193
LanguageMapAdd(lm, row) ==
    LET old == DictGet(lm, row.language, [Positive |-> 0, Negative |-> 0])
    IN  DictSet(lm, row.language, [old EXCEPT ![row.sentiment] = @ + 1])

\* CounterAdd with `= 1` in place of `+= 1`
CounterAssign(counter, key) == DictSet(counter, key, 1)

\* counter[key] += 1
CounterAdd(counter, key) == DictSet(counter, key, DictGet(counter, key, 0) + 1)

\* lines 189-199
Fold(a, row) ==
    [results |-> Append(a.results, row),
     video_map |-> VideoMapAdd(a.video_map, row),
     user_map |-> UserMapAdd(a.user_map, row),
     engagement |-> CounterAdd(a.engagement, row.video_title),
     language_map |-> LanguageMapAdd(a.language_map, row),
     stage_map |-> StageMapAdd(a.stage_map, row),
     category_map |-> IF row.sentiment = "Negative"
                      THEN CounterAdd(a.category_map, row.negative_category)
                      ELSE a.category_map,
     spikes |-> IF row.sentiment = "Negative"
                THEN CounterAdd(a.spikes, row.hour_bucket)
                ELSE a.spikes]

\* ExceptPass with the exception raised again: the run ends
ExceptRaise == "error"

\* `except: pass` (lines 201-202): the loop goes on with the next comment
ExceptPass == "loop"

\* One iteration of the for loop, lines 169-202
Iteration(a, c) == IF Raises(c) THEN a ELSE Fold(a, MakeRow(c))

\* -------------------------------------------------------- the report builder

Max1(n) == IF n < 1 THEN 1 ELSE n

\* round(num / den) to the nearest integer, ties to even, as Python's round
RoundHalfEven(num, den) ==
    LET q == num \div den
        r == num % den
    IN  IF 2 * r < den THEN q
        ELSE IF 2 * r > den THEN q + 1
        ELSE IF q % 2 = 0 THEN q ELSE q + 1

\* round((neg / max(1, total)) * 100, 2), in hundredths of a percent
Percentage(neg, total) == RoundHalfEven(neg * 10000, Max1(total))

\* CrossesThreshold with > in place of >=
CrossesThresholdStrict(pct) == pct > NEGATIVE_VIDEO_THRESHOLD * 100

\* pct >= NEGATIVE_VIDEO_THRESHOLD, line 210
CrossesThreshold(pct) == pct >= NEGATIVE_VIDEO_THRESHOLD * 100

\* The loop over video_map.items(), lines 206-216, entered at entry n
RECURSIVE FlaggedLoop(_, _, _)
FlaggedLoop(vm, n, flagged) ==
    IF n > Len(vm) THEN flagged
    ELSE LET rows == vm[n].v
             pct == Percentage(NegativeCount(rows), Len(rows))
         IN  FlaggedLoop(vm, n + 1,
                IF CrossesThreshold(pct)
                THEN Append(flagged,
                            [video_title |-> vm[n].k,
                             video_type |-> rows[1].video_type,
                             negative_percentage |-> pct,
                             video_url |-> rows[1].video_url])
                ELSE flagged)

flagged_videos(vm) == FlaggedLoop(vm, 1, <<>>)

\* the filter of the dict comprehension, line 222
IsRepeatUser(entry) == NegativeCount(entry.v) >= REPEAT_USER_THRESHOLD

\* lines 220-223
repeat_users(um) == SelectSeq(um, IsRepeatUser)

\* lines 225-232
top_offenders(ru) ==
    [n \in 1..Len(ru) |->
        [author |-> ru[n].k,
         negative_comments |-> NegativeCount(ru[n].v),
         videos_targeted |->
            Cardinality({ru[n].v[m].video_title : m \in 1..Len(ru[n].v)})]]

\* stage a has a strictly higher negative / max(1, total) than stage b
HigherRatio(a, b) == a.negative * Max1(b.total) > b.negative * Max1(a.total)

\* max(stage_map, key=...) over a non-empty dict: the first of the maximal keys
RECURSIVE MaxStageLoop(_, _, _)
MaxStageLoop(sm, n, best) ==
    IF n > Len(sm) THEN sm[best].k
    ELSE MaxStageLoop(sm, n + 1, IF HigherRatio(sm[n].v, sm[best].v) THEN n ELSE best)

\* lines 236-241; max() of an empty stage_map raises ValueError
key_takeaways(a) ==
    [negative_pct |-> Percentage(NegativeCount(a.results), Len(a.results)),
     flagged |-> Len(flagged_videos(a.video_map)),
     repeat |-> Len(repeat_users(a.user_map)),
     top_stage |-> MaxStageLoop(a.stage_map, 2, 1)]

TOP_ENGAGED == 10

\* insert entry e into a sequence sorted by descending count, after its equals
RECURSIVE InsertByCount(_, _, _)
InsertByCount(sorted, e, n) ==
    IF n > Len(sorted) THEN Append(sorted, e)
    ELSE IF sorted[n].v < e.v
         THEN SubSeq(sorted, 1, n - 1) \o <<e>> \o SubSeq(sorted, n, Len(sorted))
         ELSE InsertByCount(sorted, e, n + 1)

RECURSIVE MostCommonLoop(_, _, _)
MostCommonLoop(counter, n, sorted) ==
    IF n > Len(counter) THEN sorted
    ELSE MostCommonLoop(counter, n + 1, InsertByCount(sorted, counter[n], 1))

\* engagement.most_common(10), line 258
most_common(counter) ==
    LET all == MostCommonLoop(counter, 1, <<>>)
    IN  SubSeq(all, 1, IF Len(all) < TOP_ENGAGED THEN Len(all) ELSE TOP_ENGAGED)

\* instances counting the keys of the maps, not the records
instancesByKey(a) ==
    [total_mentions |-> Len(a.video_map),
     negative_mentions |-> Len(a.category_map)]

\* "instances", lines 249-252
instances(a) ==
    [total_mentions |-> Len(a.results),
     negative_mentions |-> NegativeCount(a.results)]

\* The report, lines 243-267.  movie, hero, director, generated_at and videos
\* are copied from the configuration, the clock and the video search and are
\* left out.
Report(a) ==
    [instances |-> instances(a),
     negative_spikes |-> a.spikes,
     language_distribution |-> a.language_map,
     sentiment_by_stage |-> a.stage_map,
     negative_categories |-> a.category_map,
     top_engaged_videos |-> most_common(a.engagement),
     flagged_negative_videos |-> flagged_videos(a.video_map),
     repeat_users |-> top_offenders(repeat_users(a.user_map)),
     repeat_user_details |-> repeat_users(a.user_map),
     key_takeaways |-> key_takeaways(a),
     comments |-> a.results]

\* What follows the loop, lines 204-272: "error" when building the report
\* raises, otherwise "done" with the report saved and returned.
AfterLoop(a) ==
    IF a.stage_map = <<>>
    THEN [pc |-> "error", output |-> None]
    ELSE [pc |-> "done", output |-> Report(a)]

\* ----------------------------------------- the spike and coordination detectors

\* The negative counts of a bucket series, in its order
Counts(series) == [n \in 1..Len(series) |-> series[n].v]

\* Exceeds with >= in place of >
ExceedsOrEquals(count, total, n) == count * n >= SPIKE_MULTIPLIER * total

\* count > SPIKE_MULTIPLIER * (total / n), for n > 0
Exceeds(count, total, n) == count * n > SPIKE_MULTIPLIER * total

\* detectSpike: no alert on fewer than MIN_BUCKETS_FOR_SPIKE buckets; otherwise
\* the average of all buckets but the last is the baseline, and the alert (a
\* sequence of at most one) fires when the last count exceeds SPIKE_MULTIPLIER
\* times it.  The average is reported in hundredths.
detectSpike(series) ==
    IF Len(series) < MIN_BUCKETS_FOR_SPIKE THEN <<>>
    ELSE LET last == series[Len(series)]
             base == SubSeq(Counts(series), 1, Len(series) - 1)
             total == SumOver(base, 1, 0)
         IN  IF Exceeds(last.v, total, Len(base))
             THEN << [bucket |-> last.k, count |-> last.v,
                      average |-> RoundHalfEven(total * 100, Len(base)),
                      severity |-> "HIGH"] >>
             ELSE <<>>

\* the negative records of one user's history
NegativeRows(rows) == SelectSeq(rows, LAMBDA r : r.sentiment = "Negative")

\* CrossStage under the relaxed policy: any repeat offender qualifies
CrossStageRelaxed(neg) == TRUE

\* the cross-stage requirement on a user's negative records
CrossStage(neg) ==
    Cardinality({neg[n].video_type : n \in 1..Len(neg)}) >= MIN_ATTACK_STAGES

\* a user's history qualifies as a coordinated attack
IsAttacker(entry) ==
    LET neg == NegativeRows(entry.v)
    IN  Len(neg) >= REPEAT_USER_THRESHOLD /\ CrossStage(neg)

\* detectCoordination: one record per qualifying user, in user_map's order
detectCoordination(um) ==
    LET hit == SelectSeq(um, IsAttacker)
    IN  [n \in 1..Len(hit) |->
            LET neg == NegativeRows(hit[n].v)
            IN  [author |-> hit[n].k,
                 negative_comments |-> Len(neg),
                 stages |-> {neg[m].video_type : m \in 1..Len(neg)},
                 videos_targeted |->
                    Cardinality({neg[m].video_title : m \in 1..Len(neg)})]]

\* the report key the dashboard reads its attackers from (dashboard.py:100)
attack_coordination == detectCoordination(user_map)

\* ------------------------------------------------------------ the input feed

\* search_movie_videos, lines 104-110: a video's type is classified from its title
Video(id, title) ==
    [video_id |-> id, video_title |-> title,
     video_type |-> classify_video(title),
     video_url |-> << "https://www.youtube.com/watch?v=", id >>]

\* fetch_comments, lines 133-140
Comment(author, text, published_at, video) ==
    [author |-> author, comment |-> text, published_at |-> published_at,
     video_title |-> video.video_title, video_type |-> video.video_type,
     video_url |-> video.video_url]

Iso(day, hh, mm) == [kind |-> "iso", day |-> day, hh |-> hh, mm |-> mm]
Malformed == [kind |-> "malformed", day |-> 0, hh |-> 0, mm |-> 0]

SongVideo == Video("v1", <<"L","y","r","i","c","a","l"," ","S","O","N","G">>)
TrailerVideo == Video("v2", <<"T","r","a","i","l","e","r">>)

SongNeg == Comment("u1", <<"B","o","r","i","n","g">>, Iso(1, 10, 23), SongVideo)
TrailerNeg == Comment("u1", <<"w","o","r","s","t">>, Iso(1, 11, 5), TrailerVideo)
SongPos == Comment("u2", <<"s","u","p","e","r">>, Iso(1, 10, 40), SongVideo)
TrailerNeutral == Comment("u2", <<"o","k">>, Iso(2, 10, 59), TrailerVideo)
NoLanguage == Comment("u2", <<"!","!">>, Iso(1, 10, 7), SongVideo)
BadTimestamp == Comment("u1", <<"B","o","r","i","n","g">>, Malformed, TrailerVideo)

Pool == {SongNeg, TrailerNeg, SongPos, TrailerNeutral, NoLanguage, BadTimestamp}
DeepPool == {SongNeg, TrailerNeg, SongPos}
PermPool == {SongNeg, TrailerNeg, SongPos, BadTimestamp}

Streams(pool, maxlen) == UNION {[1..n -> pool] : n \in 0..maxlen}

\* ---------------------------------------------------------- the state machine

Agg ==
    [results |-> results, video_map |-> video_map, user_map |-> user_map,
     language_map |-> language_map, stage_map |-> stage_map,
     category_map |-> category_map, spikes |-> spikes, engagement |-> engagement]

SetAgg(a) ==
    /\ results' = a.results
    /\ video_map' = a.video_map
    /\ user_map' = a.user_map
    /\ language_map' = a.language_map
    /\ stage_map' = a.stage_map
    /\ category_map' = a.category_map
    /\ spikes' = a.spikes
    /\ engagement' = a.engagement

aggs == << results, video_map, user_map, language_map, stage_map,
           category_map, spikes, engagement >>

\* run_intelligence up to the loop, lines 150-167
Start(streams) ==
    /\ all_comments \in streams
    /\ pos = 0
    /\ pc = "loop"
    /\ results = <<>> /\ video_map = <<>> /\ user_map = <<>>
    /\ language_map = <<>> /\ stage_map = <<>> /\ category_map = <<>>
    /\ spikes = <<>> /\ engagement = <<>>
    /\ output = None
    /\ fn = None /\ arg = <<>> /\ ret = None

Init == Start(Streams(Pool, MaxComments))
InitDeep == Start(Streams(DeepPool, MaxDeepComments))
InitPerm == Start(Streams(PermPool, MaxPermComments))

\* one pass of the loop body, lines 169-202
Ingest ==
    /\ pc = "loop"
    /\ pos < Len(all_comments)
    /\ LET c == all_comments[pos + 1]
       IN  /\ SetAgg(Iteration(Agg, c))
           /\ pc' = IF Raises(c) THEN ExceptPass ELSE "loop"
    /\ pos' = pos + 1
    /\ UNCHANGED << all_comments, output, fn, arg, ret >>

\* the rest of run_intelligence, lines 204-272
BuildReport ==
    /\ pc = "loop"
    /\ pos = Len(all_comments)
    /\ pc' = AfterLoop(Agg).pc
    /\ output' = AfterLoop(Agg).output
    /\ UNCHANGED << all_comments, pos, aggs, fn, arg, ret >>

Next == Ingest \/ BuildReport

Spec == Init /\ [][Next]_vars
SpecDeep == InitDeep /\ [][Next]_vars
SpecPerm == InitPerm /\ [][Next]_vars

\* ------------------------------------------------- the helpers, called alone

TitleWords ==
    { <<"T","i","t","l","e">>, <<"S","O","N","G">>, <<"T","e","a","s","e","r">>,
      <<"T","r","a","i","l","e","r">>, <<"R","e","v","i","e","w">>,
      <<"P","r","o","m","o">> }

TextWords ==
    { <<"B","o","r","i","n","g">>, <<"O","L","D">>, <<"S","t","o","r","y">>,
      <<"P","a","i","d">>, <<"A","c","t","i","n","g">>, <<"s","u","p","e","r">>,
      <<"S","t","a","g","e">>, <<"w","o","r","s","t">> }

RECURSIVE JoinWords(_, _)
\* " ".join(ws[n:])
JoinWords(ws, n) ==
    IF n > Len(ws) THEN <<>>
    ELSE IF n = Len(ws) THEN ws[n]
    ELSE ws[n] \o <<" ">> \o JoinWords(ws, n + 1)

Phrases(words) == {JoinWords(ws, 1) : ws \in Streams(words, MaxTitleWords)}

\* a bucket series: consecutive hours of one day with the given counts
SeriesOf(counts) == [n \in 1..Len(counts) |-> [k |-> <<1, n>>, v |-> counts[n]]]

SeriesInputs ==
    {SeriesOf(cs) : cs \in Streams(0..MaxCount, MaxBuckets)
                        \cup {<<10, 12, 11, 40>>, <<10, 20>>, <<10, 12, 22>>}}

InitPure ==
    /\ all_comments = <<>>
    /\ pos = 0
    /\ pc = "call"
    /\ results = <<>> /\ video_map = <<>> /\ user_map = <<>>
    /\ language_map = <<>> /\ stage_map = <<>> /\ category_map = <<>>
    /\ spikes = <<>> /\ engagement = <<>>
    /\ output = None
    /\ ret = None
    /\ \/ fn = "classify_video" /\ arg \in Phrases(TitleWords)
       \/ fn = "categorize_negative" /\ arg \in Phrases(TextWords)
       \/ fn = "detectSpike" /\ arg \in SeriesInputs

Return(name, value) ==
    /\ pc = "call"
    /\ fn = name
    /\ ret' = value
    /\ pc' = "return"
    /\ UNCHANGED << all_comments, pos, aggs, output, fn, arg >>

CallClassifyVideo == Return("classify_video", classify_video(arg))
CallCategorizeNegative == Return("categorize_negative", categorize_negative(arg))
CallDetectSpike == Return("detectSpike", detectSpike(arg))

NextPure == CallClassifyVideo \/ CallCategorizeNegative \/ CallDetectSpike

SpecPure == InitPure /\ [][NextPure]_vars

\* ------------------------------------------------------------- the properties

\* the places of the stream whose record is ingested, not skipped
Ingested == {n \in 1..Len(all_comments) : ~Raises(all_comments[n])}

\* the sentiment the record at place n is classified with
SentimentAt(n) ==
    normalize_sentiment(sentiment_model(Slice(all_comments[n].comment)).label)

\* the places of results whose row satisfies Test
RowsWhere(Test(_)) == {n \in 1..Len(results) : Test(results[n])}

IsNegative(r) == r.sentiment = "Negative"

\* the keys of a dict, and its entries, as sets
KeySet(d) == {d[n].k : n \in 1..Len(d)}
EntrySet(d) == {<< d[n].k, d[n].v >> : n \in 1..Len(d)}

\* C1: when a report is produced, its total_mentions is the number of records
\* of the stream that were ingested (not skipped), and its negative_mentions
\* the number of those whose sentiment is Negative.
C1_MentionCounts ==
    pc = "done" =>
        /\ output.instances.total_mentions = Cardinality(Ingested)
        /\ output.instances.negative_mentions =
              Cardinality({n \in Ingested : SentimentAt(n) = "Negative"})

C1_Witness ==
    /\ pc = "done"
    /\ Cardinality(Ingested) < Len(all_comments)
    /\ output.instances.total_mentions >= 2
    /\ output.instances.negative_mentions >= 1
    /\ output.instances.negative_mentions < output.instances.total_mentions

\* C2: a run over an empty stream, or over one whose every comment is skipped,
\* ends normally with a report of zero mentions and empty breakdowns and lists.
C2_EmptyStreamReport ==
    (pc # "loop" /\ Ingested = {}) =>
        /\ pc = "done"
        /\ output.instances = [total_mentions |-> 0, negative_mentions |-> 0]
        /\ output.sentiment_by_stage = <<>>
        /\ output.language_distribution = <<>>
        /\ output.negative_categories = <<>>
        /\ output.negative_spikes = <<>>
        /\ output.flagged_negative_videos = <<>>
        /\ output.repeat_users = <<>>

\* the rows of the records of a stream that do not raise, from place n on
RECURSIVE OkRows(_, _)
OkRows(stream, n) ==
    IF n > Len(stream) THEN <<>>
    ELSE IF Raises(stream[n]) THEN OkRows(stream, n + 1)
    ELSE << MakeRow(stream[n]) >> \o OkRows(stream, n + 1)

\* the aggregates after folding rows[n..] into a
RECURSIVE FoldRows(_, _, _)
FoldRows(a, rows, n) ==
    IF n > Len(rows) THEN a ELSE FoldRows(Fold(a, rows[n]), rows, n + 1)

\* C3: a record whose processing fails is skipped as a whole and does not end
\* the run: after every prefix of the stream the aggregates are those of the
\* records of the prefix that did not fail, every one of them ingested, and
\* the loop is left only at the end of the stream.
C3_FailedRecordSkipped ==
    /\ pc # "loop" => pos = Len(all_comments)
    /\ Agg = FoldRows(EmptyAgg, OkRows(SubSeq(all_comments, 1, pos), 1), 1)

C3_Witness ==
    /\ pos >= 2
    /\ ~Raises(all_comments[pos])
    /\ \E j \in 1..(pos - 1) : Raises(all_comments[j])
    /\ results # <<>>
    /\ results[Len(results)] = MakeRow(all_comments[pos])

\* the aggregates after the loop has run over stream[n..] from a
RECURSIVE RunLoop(_, _, _)
RunLoop(stream, n, a) ==
    IF n > Len(stream) THEN a ELSE RunLoop(stream, n + 1, Iteration(a, stream[n]))

\* how a run over the whole stream ends
Outcome(stream) == AfterLoop(RunLoop(stream, 1, EmptyAgg))

\* what of a report does not depend on the order of its entries
View(report) ==
    [instances |-> report.instances,
     stages |-> EntrySet(report.sentiment_by_stage),
     languages |-> EntrySet(report.language_distribution),
     categories |-> EntrySet(report.negative_categories),
     buckets |-> EntrySet(report.negative_spikes),
     videos |-> EntrySet(report.top_engaged_videos),
     flagged |-> {<< report.flagged_negative_videos[n].video_title,
                     report.flagged_negative_videos[n].negative_percentage >> :
                        n \in 1..Len(report.flagged_negative_videos)},
     repeat |-> {<< report.repeat_users[n].author,
                    report.repeat_users[n].negative_comments >> :
                        n \in 1..Len(report.repeat_users)}]

\* every stream that is a permutation of stream
Permuted(stream) ==
    {[n \in 1..Len(stream) |-> stream[p[n]]] : p \in Permutations(1..Len(stream))}

\* C4: a run over any permutation of the stream ends as the run over the
\* stream does, with the same counts per dimension, the same flagged videos
\* and the same repeat users.
C4_OrderIndependent ==
    pc # "loop" =>
        \A permuted \in Permuted(all_comments) :
            LET o == Outcome(permuted)
            IN  /\ o.pc = pc
                /\ pc = "done" => View(o.output) = View(output)

C4_Witness ==
    /\ pc = "done"
    /\ Len(all_comments) >= 3
    /\ all_comments[1] # all_comments[Len(all_comments)]
    /\ output.flagged_negative_videos # <<>>
    /\ output.repeat_users # <<>>

\* the ingested negative records of author u, as places of results
NegativesOf(u) == RowsWhere(LAMBDA r : r.author = u /\ r.sentiment = "Negative")

StagesOf(u) == {results[n].video_type : n \in NegativesOf(u)}

Attackers == {attack_coordination[n].author : n \in 1..Len(attack_coordination)}

C6_SpikeRule ==
    (pc = "return" /\ fn = "detectSpike") =>
        LET counts == Counts(arg)
            n == Len(counts)
            last == counts[n]
            earlier == SumOver(SubSeq(counts, 1, n - 1), 1, 0)
        IN  /\ n < 3 => ret = <<>>
            /\ n >= 3 => (ret # <<>> <=> last * (n - 1) > 2 * earlier)
            /\ ret # <<>> =>
                  /\ Len(ret) = 1
                  /\ ret[1].count = last
                  /\ ret[1].bucket = arg[n].k
                  /\ ret[1].average * (n - 1) <= 100 * earlier + (n - 1)
                  /\ ret[1].average * (n - 1) >= 100 * earlier - (n - 1)
            /\ counts = <<10, 12, 11, 40>> =>
                  (ret # <<>> /\ ret[1].count = 40 /\ ret[1].average = 1100)
            /\ (n >= 3 /\ earlier = 0 /\ last > 0) => ret # <<>>

C6_Witness ==
    /\ pc = "return"
    /\ fn = "detectSpike"
    /\ Counts(arg) = <<10, 12, 11, 40>>
    /\ ret # <<>>

\* the ingested records of the video titled t, as places of results
CommentsOf(t) == RowsWhere(LAMBDA r : r.video_title = t)

\* 100 * neg / max(1, total), rounded to two decimals (ties to even), is at
\* least 60.00: the exact percentage is at least 59.995
RoundsToThreshold(neg, total) == 2 * neg * 10000 >= 11999 * Max1(total)

FlaggedTitles ==
    {output.flagged_negative_videos[n].video_title :
        n \in 1..Len(output.flagged_negative_videos)}

\* C7: in the report a video is flagged if and only if the percentage of its
\* ingested comments that are negative, rounded to two decimals, is at least
\* 60; each flagged title is listed once; 5 of 7 is flagged, 1 of 3 is not.
C7_FlaggedVideos ==
    pc = "done" =>
        /\ \A t \in KeySet(video_map) :
              LET total == Cardinality(CommentsOf(t))
                  neg == Cardinality({n \in CommentsOf(t) : IsNegative(results[n])})
              IN  /\ t \in FlaggedTitles <=> RoundsToThreshold(neg, total)
                  /\ (neg = 5 /\ total = 7) => t \in FlaggedTitles
                  /\ (neg = 1 /\ total = 3) => t \notin FlaggedTitles
                  /\ (neg = 3 /\ total = 5) => t \in FlaggedTitles
        /\ FlaggedTitles \subseteq KeySet(video_map)
        /\ Cardinality(FlaggedTitles) = Len(output.flagged_negative_videos)

C7_Witness ==
    /\ pc = "done"
    /\ Cardinality(CommentsOf(SongVideo.video_title)) = 7
    /\ Cardinality({n \in CommentsOf(SongVideo.video_title) :
                       IsNegative(results[n])}) = 5
    /\ SongVideo.video_title \in FlaggedTitles

\* the rules of a ruleset that have a keyword in the lower-cased text
Matching(rules, text) ==
    {n \in 1..Len(rules) :
        \E j \in 1..Len(rules[n].keys) : Contains(lower(text), rules[n].keys[j])}

\* the label of the first matching rule in declaration order, or the default
FirstLabel(rules, text, default) ==
    IF Matching(rules, text) = {} THEN default
    ELSE rules[CHOOSE n \in Matching(rules, text) :
                  \A m \in Matching(rules, text) : n <= m].label

\* C8: classify_video and categorize_negative return the label of the first
\* rule, in declaration order, with a keyword in the lower-cased input,
\* whatever later rules match, and the default when no rule matches.
C8_FirstRuleWins ==
    /\ (pc = "return" /\ fn = "classify_video") =>
          ret = FirstLabel(VIDEO_CLASSIFIERS, arg, "Other")
    /\ (pc = "return" /\ fn = "categorize_negative") =>
          ret = FirstLabel(NEGATIVE_CATEGORIES, arg, "General Negativity")

C8_Witness ==
    /\ pc = "return"
    /\ fn = "classify_video"
    /\ ret = "Song"
    /\ Matching(VIDEO_CLASSIFIERS, arg) = {2, 4}
    /\ SubSeq(arg, 1, 7) = <<"T","r","a","i","l","e","r">>

CategoryLabels ==
    {NEGATIVE_CATEGORIES[n].label : n \in 1..Len(NEGATIVE_CATEGORIES)}
        \cup {"General Negativity"}

CategoryRule(r) ==
    /\ r.negative_category # None <=> r.sentiment = "Negative"
    /\ r.sentiment = "Negative" => r.negative_category \in CategoryLabels
    /\ r.sentiment \in {"Positive", "Negative"}

\* C9: every ingested record, in results and in the report's comments, has a
\* negative_category if and only if its sentiment is Negative, and then one of
\* the configured categories or General Negativity.
C9_CategoryIffNegative ==
    /\ \A n \in 1..Len(results) : CategoryRule(results[n])
    /\ pc = "done" =>
          \A n \in 1..Len(output.comments) : CategoryRule(output.comments[n])

C9_Witness ==
    /\ pc = "done"
    /\ \E n \in 1..Len(output.comments) :
          /\ output.comments[n].sentiment = "Positive"
          /\ output.comments[n].negative_category = None
    /\ \E n \in 1..Len(output.comments) :
          /\ output.comments[n].sentiment = "Negative"
          /\ output.comments[n].negative_category = "General Negativity"
    /\ \E n \in 1..Len(output.comments) :
          /\ output.comments[n].sentiment = "Negative"
          /\ output.comments[n].negative_category = "Routine Content"

\* the sum of f over the entries of a dict, f given per entry
SumOf(d, F(_)) == SumOver([n \in 1..Len(d) |-> F(d[n].v)], 1, 0)

\* C10: after every prefix of the loop the per-stage totals, the per-language
\* counts, the engagement counts and the per-user histories each add up to
\* len(results), and the per-stage negatives, the category counts and the
\* hour-bucket counts each add up to the number of Negative rows of results.
C10_Conservation ==
    LET total == Len(results)
        negative == Cardinality(RowsWhere(IsNegative))
    IN  /\ SumOf(stage_map, LAMBDA v : v.total) = total
        /\ SumOf(language_map, LAMBDA v : v.Positive + v.Negative) = total
        /\ SumOf(engagement, LAMBDA v : v) = total
        /\ SumOf(user_map, LAMBDA v : Len(v)) = total
        /\ SumOf(stage_map, LAMBDA v : v.negative) = negative
        /\ SumOf(category_map, LAMBDA v : v) = negative
        /\ SumOf(spikes, LAMBDA v : v) = negative

C10_Witness ==
    /\ pc = "loop"
    /\ pos < Len(all_comments)
    /\ Len(results) >= 3
    /\ Cardinality(RowsWhere(IsNegative)) = 2
    /\ Len(stage_map) >= 2
    /\ \E n \in 1..Len(engagement) : engagement[n].v >= 2

====
